---- MODULE Spec2Model ----
(***************************************************************************)
(* ErrorPatternDetector (sweagent/agent/pattern_detector.py): the error    *)
(* history of an agent, its per-type counters, the classifier, the loop    *)
(* detector and the queries over the history.                              *)
(*                                                                         *)
(* Python values are modelled as follows.  A dict is a function whose      *)
(* DOMAIN is its key set; a list is a sequence; a str is a string; None is *)
(* the record None; a tuple is a tuple.  A set is a set: the text Python   *)
(* prints for a set lists its members in an order the string hash of the   *)
(* interpreter run decides, so a reason that interpolates a set keeps the  *)
(* set beside the text instead of one printed order.                       *)
(***************************************************************************)
EXTENDS Integers, Sequences, FiniteSets, TLC

VARIABLES
    error_history,      \* self.error_history: list of error entries
    pattern_counters,   \* self.pattern_counters: defaultdict(int)
    op,                 \* the call that ran last: <<method name, argument>>
    ret,                \* what that call returned, or the exception it raised
    reset_pc,           \* the statement a reset() running beside a reader is at
    reader,             \* a second thread in get_statistics(): [pc, seen]
    episode             \* history variable: the reports add_error has stored
                        \* since __init__ or the last reset()

vars == <<error_history, pattern_counters, op, ret, reset_pc, reader, episode>>

-----------------------------------------------------------------------------
(* Bounds of the model.                                                    *)

MaxHistory == 5

\* The longest history under the classifier's messages.
MaxClassified == 3

\* The longest history of the records of LongReports and VolumeReports.
MaxLongHistory == 8

\* The longest history of the records of StatsReports.
MaxStatsHistory == 4

-----------------------------------------------------------------------------
(* Python values.                                                          *)

None == [none |-> TRUE]

\* A str where the source has Optional[str].
Str(text) == [text |-> text]

Returned(v) == [returned |-> v]

Raised(e) == [raised |-> e]

\* A dict whose key order matters (pattern_counters) is the list of its items
\* [key, value] in insertion order, as Python iterates it.
EmptyDict == <<>>

DictKeys(d) == {d[i].key : i \in 1..Len(d)}

DictValue(d, k) == d[CHOOSE i \in 1..Len(d) : d[i].key = k].value

\* d[k] = v: a present key keeps its place, a new key goes last.
DictSet(d, k, v) ==
    IF k \in DictKeys(d)
    THEN [i \in 1..Len(d) |-> IF d[i].key = k THEN [key |-> k, value |-> v] ELSE d[i]]
    ELSE Append(d, [key |-> k, value |-> v])

\* sum(d.values())
RECURSIVE DictSum(_)
DictSum(d) == IF d = <<>> THEN 0 ELSE Head(d).value + DictSum(Tail(d))

Max2(a, b) == IF a >= b THEN a ELSE b

Min2(a, b) == IF a <= b THEN a ELSE b

\* s[start:] for a list s, with Python's handling of a negative or too large start.
SliceFrom(s, start) ==
    LET n == Len(s)
        from == IF start < 0 THEN Max2(n + start, 0) ELSE Min2(start, n)
    IN  SubSeq(s, from + 1, n)

\* error_info.get(key, default), error_info being the caller's plain dict
DictGet(d, key, default) == IF key \in DOMAIN d THEN d[key] ELSE default

\* set(xs) for a list xs
SetOf(xs) == {xs[i] : i \in 1..Len(xs)}

-----------------------------------------------------------------------------
(* Regular expressions of known_patterns.  Every pattern is a list of      *)
(* alternatives (joined by | in the source); an alternative is a list of   *)
(* literal parts joined by .* in the source.  The messages of the model    *)
(* hold no newline, so .* spans any text between two parts.                *)

UpperCase == <<"A","B","C","D","E","F","G","H","I","J","K","L","M",
               "N","O","P","Q","R","S","T","U","V","W","X","Y","Z">>

LowerCase == <<"a","b","c","d","e","f","g","h","i","j","k","l","m",
               "n","o","p","q","r","s","t","u","v","w","x","y","z">>

LowerChar(c) ==
    IF \E i \in 1..26 : UpperCase[i] = c
    THEN LowerCase[CHOOSE i \in 1..26 : UpperCase[i] = c]
    ELSE c

\* The case folding re.IGNORECASE applies to both the pattern and the text.
RECURSIVE Lower(_)
Lower(s) ==
    IF Len(s) = 0 THEN ""
    ELSE LowerChar(SubSeq(s, 1, 1)) \o Lower(SubSeq(s, 2, Len(s)))

\* The literal parts occur in s, in order and without overlap, at or after from.
RECURSIVE PartsFoundFrom(_, _, _)
PartsFoundFrom(s, parts, from) ==
    IF parts = <<>> THEN TRUE
    ELSE LET p == Lower(Head(parts))
         IN  \E i \in from..(Len(s) - Len(p) + 1) :
                /\ SubSeq(s, i, i + Len(p) - 1) = p
                /\ PartsFoundFrom(s, Tail(parts), i + Len(p))

\* re.search(pattern_regex, error_message, re.IGNORECASE) is not None
re_search(pattern_regex, error_message) ==
    \E a \in 1..Len(pattern_regex) :
        PartsFoundFrom(Lower(error_message), pattern_regex[a], 1)

\* self.known_patterns, in the insertion order a dict iterates in.
known_patterns == <<
    [name |-> "indentation",
     regex |-> << <<"IndentationError">>, <<"unexpected indent">>,
                  <<"expected an indented block">>, <<"unindent does not match">> >>],
    [name |-> "syntax",
     regex |-> << <<"SyntaxError">>, <<"invalid syntax">>, <<"EOF while scanning">>,
                  <<"unterminated string">>, <<"unexpected EOF">>,
                  <<"invalid character">> >>],
    [name |-> "undefined",
     regex |-> << <<"NameError">>, <<"undefined">>, <<"not defined">>,
                  <<"name ", " is not defined">> >>],
    [name |-> "import",
     regex |-> << <<"ImportError">>, <<"ModuleNotFoundError">>, <<"cannot import">>,
                  <<"No module named">> >>],
    [name |-> "type",
     regex |-> << <<"TypeError">>, <<"AttributeError">>, <<"object has no attribute">>,
                  <<"takes ", " positional argument">> >>],
    [name |-> "logic",
     regex |-> << <<"IndexError">>, <<"KeyError">>, <<"ValueError">>,
                  <<"list index out of range">>, <<"dictionary key error">> >>] >>

\* A slip: the loop over the patterns does not stop at the first match.
classify_error_last_match(error_message) ==
    IF error_message = "" THEN "unknown"
    ELSE LET hits == {k \in 1..Len(known_patterns) :
                         re_search(known_patterns[k].regex, error_message)}
         IN  IF hits = {} THEN "unknown"
             ELSE known_patterns[CHOOSE k \in hits : \A j \in hits : k >= j].name

\* _classify_error(error_message)
classify_error(error_message) ==
    IF error_message = "" THEN "unknown"
    ELSE LET hits == {k \in 1..Len(known_patterns) :
                         re_search(known_patterns[k].regex, error_message)}
         IN  IF hits = {} THEN "unknown"
             ELSE known_patterns[CHOOSE k \in hits : \A j \in hits : k <= j].name

-----------------------------------------------------------------------------
(* The inputs of the model.                                                *)

\* Error reports the agent loop passes to add_error: three known categories
\* over two files (one without a line, two on the same line of different
\* files), an empty message without file and line, and a report without the
\* message field.
Reports == {
    [message |-> "IndentationError: unexpected indent", file |-> "test.py", line |-> 10,
     action |-> "edit"],
    [message |-> "ImportError: cannot import name x", file |-> "test.py"],
    [message |-> "SyntaxError: invalid syntax", file |-> "script.py", line |-> 10],
    [message |-> "SyntaxError: invalid syntax", file |-> "test.py", line |-> 20],
    [message |-> ""],
    [file |-> "test.py", line |-> 10] }

\* Messages in which the patterns of more than one category are found, of one
\* category, and of none.
ClassifyReports == {
    [message |-> "IndentationError: invalid syntax"],
    [message |-> "invalid syntax: unexpected indent"],
    [message |-> "SyntaxError: name 'x' is not defined"],
    [message |-> "NameError: no module named x"],
    [message |-> "cannot import: object has no attribute y"],
    [message |-> "KeyError raised by TypeError"],
    [message |-> "list index out of range"],
    [message |-> "Error 1"],
    [message |-> ""] }

\* Reports of two kinds, for histories long enough to pass every threshold of
\* get_recovery_suggestion and should_suggest_alternative_approach.
LongReports == {
    [message |-> "SyntaxError: invalid syntax", file |-> "script.py", line |-> 20],
    [message |-> "Error 1", file |-> "test.py"] }

\* The same with a report that names no file, for get_statistics.
VolumeReports == LongReports \cup { [message |-> ""] }

\* The default window_size of detect_loop's signature.
DefaultWindow == 5

\* window_size arguments of detect_loop.
WindowSizes == {0, 1, 3, 4, DefaultWindow}

\* Reports whose lines and files tell the cases of _count_recovery_attempts
\* apart: one line in two files, lines 10 and 11 apart in one file, a file
\* without a line, and neither file nor line.
StatsReports == {
    [message |-> "IndentationError: unexpected indent", file |-> "test.py", line |-> 10],
    [message |-> "SyntaxError: invalid syntax", file |-> "test.py", line |-> 20],
    [message |-> "SyntaxError: invalid syntax", file |-> "test.py", line |-> 31],
    [message |-> "ImportError: cannot import name x", file |-> "script.py", line |-> 10],
    [message |-> "ImportError: cannot import name x", file |-> "test.py"],
    [message |-> ""] }

\* The messages of the reports, and _classify_error tabulated over them.
Messages ==
    {r["message"] : r \in {x \in Reports \cup ClassifyReports \cup LongReports
                                     \cup StatsReports :
                               "message" \in DOMAIN x}}

ErrorTypeOf == [m \in Messages |-> classify_error(m)]

\* A call of _classify_error(error_message) by itself.
classify_error_call(error_message) ==
    /\ reset_pc = "idle"
    /\ op' = <<"_classify_error", error_message>>
    /\ ret' = Returned(ErrorTypeOf[error_message])
    /\ UNCHANGED <<error_history, pattern_counters, reset_pc, reader, episode>>

-----------------------------------------------------------------------------
(* add_error                                                               *)

\* A slip: a falsy message is treated as a missing one.
HasMessage_truthy(error_info) ==
    "message" \in DOMAIN error_info /\ error_info["message"] # ""

\* 'message' in error_info
HasMessage(error_info) == "message" \in DOMAIN error_info

\* A slip: the sequence index counts from 1.
error_entry_one_based(error_info, error_type, history) ==
    [timestamp    |-> Len(history) + 1,
     error_type   |-> error_type,
     message      |-> error_info["message"],
     file         |-> DictGet(error_info, "file", ""),
     line         |-> DictGet(error_info, "line", 0),
     action       |-> DictGet(error_info, "action", ""),
     code_snippet |-> DictGet(error_info, "code_snippet", ""),
     traceback    |-> DictGet(error_info, "traceback", "")]

\* The error_entry dict add_error builds.
error_entry(error_info, error_type, history) ==
    [timestamp    |-> Len(history),
     error_type   |-> error_type,
     message      |-> error_info["message"],
     file         |-> DictGet(error_info, "file", ""),
     line         |-> DictGet(error_info, "line", 0),
     action       |-> DictGet(error_info, "action", ""),
     code_snippet |-> DictGet(error_info, "code_snippet", ""),
     traceback    |-> DictGet(error_info, "traceback", "")]

\* A slip: the entry is inserted at the front instead of appended.
HistoryAfterAppend_front(history, entry) == <<entry>> \o history

\* self.error_history.append(error_entry)
HistoryAfterAppend(history, entry) == Append(history, entry)

\* self.pattern_counters[key] on a defaultdict(int): a missing key is inserted
\* with int() = 0 by the lookup itself.  The dict after the lookup.
CountersAfterLookup(counters, key) ==
    IF key \in DictKeys(counters) THEN counters ELSE DictSet(counters, key, 0)

\* A slip: the counter is set to 1 instead of incremented.
CountersAfterIncrement_assign(counters, error_type) ==
    DictSet(counters, error_type, 1)

\* self.pattern_counters[error_type] += 1
CountersAfterIncrement(counters, error_type) ==
    LET looked == CountersAfterLookup(counters, error_type)
    IN  DictSet(looked, error_type, DictValue(looked, error_type) + 1)

add_error(error_info) ==
    /\ reset_pc = "idle"
    /\ op' = <<"add_error", error_info>>
    /\ IF ~HasMessage(error_info)
       THEN /\ ret' = Raised("ValueError")
            /\ UNCHANGED <<error_history, pattern_counters, episode>>
       ELSE /\ LET error_type == ErrorTypeOf[error_info["message"]]
               IN  /\ error_history' =
                          HistoryAfterAppend(error_history,
                              error_entry(error_info, error_type, error_history))
                   /\ pattern_counters' =
                          CountersAfterIncrement(pattern_counters, error_type)
            /\ ret' = Returned(None)
            /\ episode' = Append(episode, error_info)
    /\ UNCHANGED <<reset_pc, reader>>

-----------------------------------------------------------------------------
(* detect_loop                                                             *)

\* A reason string; set holds the set a reason interpolates, if any.
Reason(text, set) == [text |-> text, set |-> set]

\* [e[field] for e in errors]
FieldList(errors, field) == [i \in 1..Len(errors) |-> errors[i][field]]

\* ''.join([t[0] for t in error_types])
RECURSIVE first_letters(_)
first_letters(error_types) ==
    IF error_types = <<>> THEN ""
    ELSE SubSeq(Head(error_types), 1, 1) \o first_letters(Tail(error_types))

\* A slip: the minimum length of the pattern is not asked for.
is_alternating_any_length(pattern) ==
    \A i \in 1..(Len(pattern) - 1) :
        SubSeq(pattern, i, i) # SubSeq(pattern, i + 1, i + 1)

\* _is_alternating(pattern)
is_alternating(pattern) ==
    IF Len(pattern) < 4 THEN FALSE
    ELSE \A i \in 1..(Len(pattern) - 1) :
            SubSeq(pattern, i, i) # SubSeq(pattern, i + 1, i + 1)

\* A slip: the unknown type is not excluded.
uniform_type_test_any(error_types) ==
    Cardinality(SetOf(error_types)) = 1

\* 1. len(set(error_types)) == 1 and error_types[0] != 'unknown'
uniform_type_test(error_types) ==
    /\ Cardinality(SetOf(error_types)) = 1
    /\ error_types[1] # "unknown"

\* A slip: two records on one line are taken for a repetition.
same_line_test_two(lines) ==
    /\ Len(lines) >= 2
    /\ Cardinality(SetOf(lines)) = 1

\* 2. len(lines) >= 3 and len(set(lines)) == 1
same_line_test(lines) ==
    /\ Len(lines) >= 3
    /\ Cardinality(SetOf(lines)) = 1

\* 3. len(set(error_types)) == 2 and _is_alternating(first letters)
alternating_test(error_types) ==
    /\ Cardinality(SetOf(error_types)) = 2
    /\ is_alternating(first_letters(error_types))

\* A slip: three records in one file are taken for a saturation.
same_file_test_three(recent_errors, files) ==
    /\ Cardinality(SetOf(files)) = 1
    /\ Len(files) >= 3
    /\ Len(SelectSeq(recent_errors, LAMBDA e : e.file = files[1])) >= 3

\* 4. len(set(files)) == 1 and len(files) >= 4 and error_count >= 4
same_file_test(recent_errors, files) ==
    /\ Cardinality(SetOf(files)) = 1
    /\ Len(files) >= 4
    /\ Len(SelectSeq(recent_errors, LAMBDA e : e.file = files[1])) >= 4

\* A slip: the test for a full window is left out.
window_not_full_never(history, window_size) == FALSE

\* len(self.error_history) < window_size
window_not_full(history, window_size) == Len(history) < window_size

\* detect_loop(window_size) on a given history: the tuple (is_loop, reason).
DetectLoopOn(history, window_size) ==
    IF window_not_full(history, window_size) THEN <<FALSE, None>>
    ELSE LET recent_errors == SliceFrom(history, -window_size)
             error_types == FieldList(recent_errors, "error_type")
             lines == SelectSeq(FieldList(recent_errors, "line"), LAMBDA l : l > 0)
             files == SelectSeq(FieldList(recent_errors, "file"), LAMBDA f : f # "")
         IN  IF uniform_type_test(error_types)
             THEN <<TRUE, Reason("Repetitive " \o error_types[1] \o " errors detected", {})>>
             ELSE IF same_line_test(lines)
             THEN <<TRUE, Reason("Repeatedly failing at line " \o ToString(lines[1]), {})>>
             ELSE IF alternating_test(error_types)
             THEN <<TRUE, Reason("Alternating between ", SetOf(error_types))>>
             ELSE IF same_file_test(recent_errors, files)
             THEN <<TRUE, Reason("Multiple errors in same file: " \o files[1], {})>>
             ELSE <<FALSE, None>>

detect_loop(window_size) ==
    /\ reset_pc = "idle"
    /\ op' = <<"detect_loop", window_size>>
    /\ ret' = Returned(DetectLoopOn(error_history, window_size))
    /\ UNCHANGED <<error_history, pattern_counters, reset_pc, reader, episode>>

-----------------------------------------------------------------------------
(* get_statistics and its helpers                                          *)

\* A float that is the quotient of two ints, kept as the fraction.
Quotient(num, den) == [num |-> num, den |-> den]

Abs(x) == IF x < 0 THEN -x ELSE x

\* A slip: the second test is an if of its own, so a pair can count twice.
recovery_step_both(curr_error, prev_error) ==
    (IF curr_error.line = prev_error.line /\ curr_error.line > 0 THEN 1 ELSE 0)
    + (IF /\ curr_error.file = prev_error.file
          /\ curr_error.file # ""
          /\ curr_error.line > 0 /\ prev_error.line > 0
          /\ Abs(curr_error.line - prev_error.line) <= 10 THEN 1 ELSE 0)

\* One iteration of the loop of _count_recovery_attempts: 1 if counted, else 0.
recovery_step(curr_error, prev_error) ==
    IF curr_error.line = prev_error.line /\ curr_error.line > 0 THEN 1
    ELSE IF /\ curr_error.file = prev_error.file
            /\ curr_error.file # ""
            /\ curr_error.line > 0 /\ prev_error.line > 0
            /\ Abs(curr_error.line - prev_error.line) <= 10 THEN 1
    ELSE 0

\* _count_recovery_attempts()
RECURSIVE count_recovery_attempts(_)
count_recovery_attempts(history) ==
    IF Len(history) < 2 THEN 0
    ELSE count_recovery_attempts(SubSeq(history, 1, Len(history) - 1))
         + recovery_step(history[Len(history)], history[Len(history) - 1])

\* The backward loop of _count_consecutive_same_type, from index i (1-based).
RECURSIVE same_type_run(_, _, _)
same_type_run(history, last_type, i) ==
    IF i < 1 THEN 0
    ELSE IF history[i].error_type = last_type
         THEN 1 + same_type_run(history, last_type, i - 1)
         ELSE 0

\* _count_consecutive_same_type()
count_consecutive_same_type(history) ==
    IF history = <<>> THEN 0
    ELSE 1 + same_type_run(history, history[Len(history)].error_type, Len(history) - 1)

\* get_error_rate()
get_error_rate(history) ==
    IF history = <<>> THEN Quotient(0, 1)
    ELSE Quotient(Min2(Len(history), 5), 5)

\* A slip: a later item with an equal value replaces the maximum.
max_by_value_last(d) ==
    d[CHOOSE i \in 1..Len(d) :
        /\ \A j \in 1..Len(d) : d[j].value <= d[i].value
        /\ \A j \in (i + 1)..Len(d) : d[j].value < d[i].value].key

\* max(d.items(), key=lambda x: x[1])[0]: the first item, in iteration order,
\* whose value no item exceeds.
max_by_value(d) ==
    d[CHOOSE i \in 1..Len(d) :
        /\ \A j \in 1..Len(d) : d[j].value <= d[i].value
        /\ \A j \in 1..(i - 1) : d[j].value < d[i].value].key

\* The dict get_statistics() returns for an empty history.
EmptyStatistics ==
    [total_errors          |-> 0,
     by_type               |-> EmptyDict,
     recent_errors         |-> 0,
     recovery_attempts     |-> 0,
     most_common_error     |-> None,
     unique_files_affected |-> 0,
     avg_errors_per_file   |-> Quotient(0, 1)]

\* A slip: the empty file name counts as a file.
unique_files_of_any(history) == SetOf(FieldList(history, "file"))

\* unique_files = set(e['file'] for e in self.error_history if e['file'])
unique_files_of(history) == SetOf(FieldList(history, "file")) \ {""}

\* The dict get_statistics() builds once the emptiness test has passed.
BuiltStatistics(history, counters) ==
    LET unique_files == unique_files_of(history)
    IN  [total_errors          |-> Len(history),
         by_type               |-> counters,
         recent_errors         |-> Len(SliceFrom(history, -5)),
         recovery_attempts     |-> count_recovery_attempts(history),
         most_common_error     |-> IF counters # EmptyDict
                                   THEN Str(max_by_value(counters)) ELSE None,
         unique_files_affected |-> Cardinality(unique_files),
         avg_errors_per_file   |-> Quotient(Len(history),
                                            Max2(1, Cardinality(unique_files))),
         error_rate            |-> get_error_rate(history),
         consecutive_same_type |-> count_consecutive_same_type(history)]

\* get_statistics() on a given state.
StatisticsOn(history, counters) ==
    IF history = <<>> THEN EmptyStatistics
    ELSE BuiltStatistics(history, counters)

get_statistics ==
    /\ reset_pc = "idle"
    /\ op' = <<"get_statistics", None>>
    /\ ret' = Returned(StatisticsOn(error_history, pattern_counters))
    /\ UNCHANGED <<error_history, pattern_counters, reset_pc, reader, episode>>

-----------------------------------------------------------------------------
(* get_recovery_suggestion.  The texts are the source's, without their     *)
(* non-ASCII symbols.                                                      *)

\* The suggestions dict, keyed by error type.
suggestions == [
    indentation |->
        "INDENTATION ERROR - Common fixes:\n"
        \o "1. Check that all lines use consistent spacing (4 spaces or 1 tab)\n"
        \o "2. Verify the indentation matches the surrounding code\n"
        \o "3. Use the 'goto' command to see context around your edit\n"
        \o "4. Compare with neighboring functions for proper indentation level",
    syntax |->
        "SYNTAX ERROR - Try these steps:\n"
        \o "1. Check for missing/extra parentheses, brackets, or quotes\n"
        \o "2. Verify the line before/after your edit for completion\n"
        \o "3. Review the original code structure before editing\n"
        \o "4. Look for unclosed strings, lists, or function calls",
    undefined |->
        "UNDEFINED NAME - Likely causes:\n"
        \o "1. Missing import statement at the top of the file\n"
        \o "2. Variable defined in a different scope\n"
        \o "3. Typo in variable/function name\n"
        \o "4. Variable defined after it's used\n"
        \o "-> Use 'search_file' to find where this name is defined\n"
        \o "-> Use 'search_dir' to search across the entire codebase",
    import |->
        "IMPORT ERROR - Solutions:\n"
        \o "1. Check if the module is available in this environment\n"
        \o "2. Verify the import path is correct (relative vs absolute)\n"
        \o "3. Look for similar imports elsewhere in the codebase\n"
        \o "4. Check if the module needs to be installed\n"
        \o "-> Use 'search_dir' to find existing import patterns",
    type |->
        "TYPE/ATTRIBUTE ERROR - Check:\n"
        \o "1. Variable types match expected operations\n"
        \o "2. Object has the attribute/method you're calling\n"
        \o "3. Review the object's class definition\n"
        \o "4. Check function signatures and argument types\n"
        \o "-> Use 'search_file' to find the class/function definition",
    logic |->
        "LOGIC ERROR (Index/Key/Value) - Verify:\n"
        \o "1. List/dict indices are within bounds\n"
        \o "2. Keys exist before accessing them (use .get() or 'in')\n"
        \o "3. Check for empty collections before accessing\n"
        \o "4. Verify loop ranges and conditions" ]

\* The default of suggestions.get(error_type, ...).
fallback_suggestion ==
    "ERROR DETECTED - Consider a different approach\n"
    \o "1. Re-read the error message carefully\n"
    \o "2. Review the surrounding code for context\n"
    \o "3. Try a simpler, incremental change"

\* The warning appended when frequency >= 3.
frequency_warning(frequency, error_type) ==
    "\n\nWARNING: This is your " \o ToString(frequency) \o "th "
    \o error_type \o " error.\n"
    \o "Consider:\n"
    \o "- Taking a completely different approach to solve this issue\n"
    \o "- Re-reading the file to understand the context better\n"
    \o "- Starting with a simpler change first\n"
    \o "- Searching for similar code patterns in the repository"

\* The warning appended when total_errors >= 7.
total_warning(total_errors) ==
    "\n\nTOTAL ERRORS: " \o ToString(total_errors) \o "\n"
    \o "You may be approaching this problem incorrectly.\n"
    \o "Consider requesting human assistance or trying a different strategy."

\* A slip: the first record of the history is taken for the most recent one.
recent_error_first(history) == history[1]

\* recent_error = self.error_history[-1]
recent_error(history) == history[Len(history)]

\* A slip: the name of the variable is quoted, so a literal key is looked up.
suggestion_counter_key_literal(history) == "error_type"

\* The key get_recovery_suggestion looks up in pattern_counters.
suggestion_counter_key(history) == history[Len(history)].error_type

\* A slip: the third error of a type does not count as many yet.
frequency_is_high_strict(frequency) == frequency > 3

\* if frequency >= 3
frequency_is_high(frequency) == frequency >= 3

\* A slip: the seventh error does not count as many yet.
total_is_high_strict(total_errors) == total_errors > 7

\* if total_errors >= 7
total_is_high(total_errors) == total_errors >= 7

\* The text get_recovery_suggestion() returns on a non-empty history, given the
\* counters as the lookup of line 214 left them.
SuggestionOn(history, counters) ==
    LET error_type == recent_error(history).error_type
        frequency == DictValue(counters, suggestion_counter_key(history))
        base == IF error_type \in DOMAIN suggestions
                THEN suggestions[error_type] ELSE fallback_suggestion
        with_frequency == IF frequency_is_high(frequency)
                          THEN base \o frequency_warning(frequency, error_type)
                          ELSE base
    IN  IF total_is_high(Len(history))
        THEN with_frequency \o total_warning(Len(history))
        ELSE with_frequency

get_recovery_suggestion ==
    /\ reset_pc = "idle"
    /\ op' = <<"get_recovery_suggestion", None>>
    /\ IF error_history = <<>>
       THEN /\ ret' = Returned(None)
            /\ pattern_counters' = pattern_counters
       ELSE LET looked == CountersAfterLookup(pattern_counters,
                              suggestion_counter_key(error_history))
            IN  /\ ret' = Returned(Str(SuggestionOn(error_history, looked)))
                /\ pattern_counters' = looked
    /\ UNCHANGED <<error_history, reset_pc, reader, episode>>

-----------------------------------------------------------------------------
(* should_suggest_alternative_approach                                     *)

\* A slip: the test of the last five attempts is left out.
ShouldSuggestOn_without_recent(history) ==
    IF Len(history) < 3 THEN FALSE
    ELSE IF /\ Len(history) >= 3
            /\ LET last_3_types == FieldList(SliceFrom(history, -3), "error_type")
               IN  /\ Cardinality(SetOf(last_3_types)) = 1
                   /\ last_3_types[1] # "unknown"
         THEN TRUE
    ELSE IF Len(history) >= 8 THEN TRUE
    ELSE FALSE

\* should_suggest_alternative_approach() on a given history.
ShouldSuggestOn(history) ==
    IF Len(history) < 3 THEN FALSE
    ELSE IF Len(history) >= 5 /\ Len(SliceFrom(history, -5)) >= 4 THEN TRUE
    ELSE IF /\ Len(history) >= 3
            /\ LET last_3_types == FieldList(SliceFrom(history, -3), "error_type")
               IN  /\ Cardinality(SetOf(last_3_types)) = 1
                   /\ last_3_types[1] # "unknown"
         THEN TRUE
    ELSE IF Len(history) >= 8 THEN TRUE
    ELSE FALSE

should_suggest_alternative_approach ==
    /\ reset_pc = "idle"
    /\ op' = <<"should_suggest_alternative_approach", None>>
    /\ ret' = Returned(ShouldSuggestOn(error_history))
    /\ UNCHANGED <<error_history, pattern_counters, reset_pc, reader, episode>>

-----------------------------------------------------------------------------
(* The utility queries                                                     *)

\* get_last_n_errors(n) on a given history.
LastNErrorsOn(history, n) ==
    IF Len(history) >= n THEN SliceFrom(history, -n) ELSE history

get_last_n_errors(n) ==
    /\ reset_pc = "idle"
    /\ op' = <<"get_last_n_errors", n>>
    /\ ret' = Returned(LastNErrorsOn(error_history, n))
    /\ UNCHANGED <<error_history, pattern_counters, reset_pc, reader, episode>>

has_error_in_file(filename) ==
    /\ reset_pc = "idle"
    /\ op' = <<"has_error_in_file", filename>>
    /\ ret' = Returned(\E i \in 1..Len(error_history) : error_history[i].file = filename)
    /\ UNCHANGED <<error_history, pattern_counters, reset_pc, reader, episode>>

get_errors_by_type(error_type) ==
    /\ reset_pc = "idle"
    /\ op' = <<"get_errors_by_type", error_type>>
    /\ ret' = Returned(SelectSeq(error_history, LAMBDA e : e.error_type = error_type))
    /\ UNCHANGED <<error_history, pattern_counters, reset_pc, reader, episode>>

get_errors_by_file(filename) ==
    /\ reset_pc = "idle"
    /\ op' = <<"get_errors_by_file", filename>>
    /\ ret' = Returned(SelectSeq(error_history, LAMBDA e : e.file = filename))
    /\ UNCHANGED <<error_history, pattern_counters, reset_pc, reader, episode>>

get_error_rate_call ==
    /\ reset_pc = "idle"
    /\ op' = <<"get_error_rate", None>>
    /\ ret' = Returned(get_error_rate(error_history))
    /\ UNCHANGED <<error_history, pattern_counters, reset_pc, reader, episode>>

\* A local defaultdict(int) after counts[k] += 1 for every k of keys, in order.
RECURSIVE Tally(_)
Tally(keys) ==
    IF keys = <<>> THEN EmptyDict
    ELSE LET front == Tally(SubSeq(keys, 1, Len(keys) - 1))
             last == keys[Len(keys)]
         IN  DictSet(front, last,
                     (IF last \in DictKeys(front) THEN DictValue(front, last) ELSE 0) + 1)

\* get_most_problematic_file() on a given history.
MostProblematicFileOn(history) ==
    IF history = <<>> THEN None
    ELSE LET file_counts ==
                 Tally(SelectSeq(FieldList(history, "file"), LAMBDA f : f # ""))
         IN  IF file_counts = EmptyDict THEN None
             ELSE Str(max_by_value(file_counts))

get_most_problematic_file ==
    /\ reset_pc = "idle"
    /\ op' = <<"get_most_problematic_file", None>>
    /\ ret' = Returned(MostProblematicFileOn(error_history))
    /\ UNCHANGED <<error_history, pattern_counters, reset_pc, reader, episode>>

\* get_problematic_lines(filename, threshold) on a given history.
ProblematicLinesOn(history, filename, threshold) ==
    LET line_counts ==
            Tally(FieldList(SelectSeq(history,
                      LAMBDA e : e.file = filename /\ e.line > 0), "line"))
    IN  FieldList(SelectSeq(line_counts, LAMBDA item : item.value >= threshold), "key")

get_problematic_lines(filename, threshold) ==
    /\ reset_pc = "idle"
    /\ op' = <<"get_problematic_lines", <<filename, threshold>> >>
    /\ ret' = Returned(ProblematicLinesOn(error_history, filename, threshold))
    /\ UNCHANGED <<error_history, pattern_counters, reset_pc, reader, episode>>

-----------------------------------------------------------------------------
(* summary                                                                 *)

RECURSIVE Pow10(_)
Pow10(digits) == IF digits = 0 THEN 1 ELSE 10 * Pow10(digits - 1)

RECURSIVE ZeroPadded(_, _)
ZeroPadded(n, digits) ==
    IF digits = 0 THEN ""
    ELSE ZeroPadded(n \div 10, digits - 1) \o ToString(n % 10)

\* f"{q:.<digits>f}" for a non-negative quotient q, digits >= 1.  The quotients
\* summary formats (errors per file, percentages of a type) fall on no rounding
\* tie for fewer than 16 errors, so rounding to nearest decides every digit.
FormatFixed(q, digits) ==
    LET scaled == (2 * q.num * Pow10(digits) + q.den) \div (2 * q.den)
    IN  ToString(scaled \div Pow10(digits)) \o "."
        \o ZeroPadded(scaled % Pow10(digits), digits)

\* sorted(items, key=lambda x: x[1], reverse=True): stable, by value descending.
RECURSIVE sorted_by_value_desc(_)
sorted_by_value_desc(items) ==
    IF items = <<>> THEN <<>>
    ELSE LET first == CHOOSE i \in 1..Len(items) :
                         /\ \A j \in 1..Len(items) : items[j].value <= items[i].value
                         /\ \A j \in 1..(i - 1) : items[j].value < items[i].value
         IN  <<items[first]>>
             \o sorted_by_value_desc(SubSeq(items, 1, first - 1)
                                     \o SubSeq(items, first + 1, Len(items)))

\* The "Errors by Type" lines of summary.
RECURSIVE type_lines(_, _)
type_lines(items, total_errors) ==
    IF items = <<>> THEN ""
    ELSE LET percentage == IF total_errors > 0
                           THEN Quotient(Head(items).value * 100, total_errors)
                           ELSE Quotient(0, 1)
         IN  "   - " \o Head(items).key \o ": " \o ToString(Head(items).value)
             \o " (" \o FormatFixed(percentage, 1) \o "%)\n"
             \o type_lines(Tail(items), total_errors)

\* summary() on a given state.  text is the returned string up to the loop
\* line; loop is the reason interpolated in the "LOOP DETECTED" line, None when
\* the line is absent; recommendation tells whether the closing
\* "RECOMMENDATION: Try a different approach!" line is present.
SummaryOn(history, counters) ==
    LET stats == StatisticsOn(history, counters)
        most_problematic == MostProblematicFileOn(history)
        loop == DetectLoopOn(history, DefaultWindow)
    IN  [text |->
            "\nERROR PATTERN DETECTOR SUMMARY\n\n"
            \o "Total Errors: " \o ToString(stats.total_errors) \o "\n"
            \o "Recent Errors (last 5): " \o ToString(stats.recent_errors) \o "\n"
            \o "Recovery Attempts: " \o ToString(stats.recovery_attempts) \o "\n\n"
            \o "Files Affected: " \o ToString(stats.unique_files_affected) \o "\n"
            \o "Avg Errors per File: " \o FormatFixed(stats.avg_errors_per_file, 2)
            \o "\n\nErrors by Type:\n"
            \o type_lines(sorted_by_value_desc(stats.by_type), stats.total_errors)
            \o (IF stats.most_common_error # None
                THEN "\nMost Common: " \o stats.most_common_error.text \o "\n" ELSE "")
            \o (IF most_problematic # None
                THEN "Most Problematic File: " \o most_problematic.text \o "\n" ELSE ""),
         loop |-> IF loop[1] THEN loop[2] ELSE None,
         recommendation |-> ShouldSuggestOn(history)]

summary ==
    /\ reset_pc = "idle"
    /\ op' = <<"summary", None>>
    /\ ret' = Returned(SummaryOn(error_history, pattern_counters))
    /\ UNCHANGED <<error_history, pattern_counters, reset_pc, reader, episode>>

-----------------------------------------------------------------------------
(* reset                                                                   *)

\* A slip: the list is rebound to its last record instead of cleared.
ClearedHistory_last_kept(history) == SliceFrom(history, Len(history) - 1)

\* self.error_history.clear()
ClearedHistory(history) == <<>>

\* A slip: the counters survive the reset.
ClearedCounters_kept(counters) == counters

\* self.pattern_counters.clear()
ClearedCounters(counters) == EmptyDict

\* reset() run to completion by the single caller: the statistics are
\* formatted for the log line, then both containers are cleared.
reset ==
    /\ reset_pc = "idle"
    /\ op' = <<"reset", None>>
    /\ error_history' = ClearedHistory(error_history)
    /\ pattern_counters' = ClearedCounters(pattern_counters)
    /\ ret' = Returned(None)
    /\ episode' = <<>>
    /\ UNCHANGED <<reset_pc, reader>>

-----------------------------------------------------------------------------
(* The detector used by one caller at a time.                              *)

Init ==
    /\ error_history = <<>>
    /\ pattern_counters = EmptyDict
    /\ op = <<"__init__", None>>
    /\ ret = Returned(None)
    /\ reset_pc = "idle"
    /\ reader = [pc |-> "idle", seen |-> None]
    /\ episode = <<>>

Next ==
    \/ \E error_info \in Reports :
          /\ Len(error_history) < MaxHistory \/ "message" \notin DOMAIN error_info
          /\ add_error(error_info)
    \/ reset
    \/ \E window_size \in WindowSizes : detect_loop(window_size)
    \/ get_statistics

Spec == Init /\ [][Next]_vars

-----------------------------------------------------------------------------
(* The detector under every query, on a smaller set of reports.            *)

QueryReports == {
    [message |-> "IndentationError: unexpected indent", file |-> "test.py", line |-> 10,
     action |-> "edit"],
    [message |-> "SyntaxError: invalid syntax", file |-> "script.py", line |-> 20],
    [message |-> ""],
    [file |-> "test.py", line |-> 10] }

Filenames == {"test.py", "script.py", ""}

QueryNext ==
    \/ \E error_info \in QueryReports :
          /\ Len(error_history) < MaxHistory \/ "message" \notin DOMAIN error_info
          /\ add_error(error_info)
    \/ reset
    \/ \E window_size \in WindowSizes : detect_loop(window_size)
    \/ get_recovery_suggestion
    \/ should_suggest_alternative_approach
    \/ get_statistics
    \/ summary
    \/ \E n \in {0, 1, 3} : get_last_n_errors(n)
    \/ \E filename \in Filenames : has_error_in_file(filename)
    \/ \E error_type \in {"indentation", "syntax", "unknown", "logic"} :
          get_errors_by_type(error_type)
    \/ \E filename \in Filenames : get_errors_by_file(filename)
    \/ get_error_rate_call
    \/ get_most_problematic_file
    \/ \E filename \in Filenames, threshold \in {1, 2} :
          get_problematic_lines(filename, threshold)

QuerySpec == Init /\ [][QueryNext]_vars

-----------------------------------------------------------------------------
(* Episodes: the caller resets the detector only after an episode that     *)
(* stored at least one record, then uses it again.                         *)

EpisodeNext ==
    \/ \E error_info \in QueryReports :
          /\ Len(error_history) < MaxHistory \/ "message" \notin DOMAIN error_info
          /\ add_error(error_info)
    \/ error_history # <<>> /\ reset
    \/ \E window_size \in WindowSizes : detect_loop(window_size)
    \/ get_recovery_suggestion
    \/ should_suggest_alternative_approach
    \/ get_statistics
    \/ summary
    \/ \E n \in {0, 1, 3} : get_last_n_errors(n)

EpisodeSpec == Init /\ [][EpisodeNext]_vars

-----------------------------------------------------------------------------
(* The classifier, called by itself and by add_error, on messages that     *)
(* match several categories, one or none, and the suggestion for the       *)
(* records of every category.                                              *)

ClassifyNext ==
    \/ \E error_info \in ClassifyReports :
          Len(error_history) < MaxClassified /\ add_error(error_info)
    \/ \E error_info \in ClassifyReports : classify_error_call(error_info["message"])
    \/ get_recovery_suggestion
    \/ reset

ClassifySpec == Init /\ [][ClassifyNext]_vars

-----------------------------------------------------------------------------
(* The detector on long histories of two kinds of records.                 *)

LongNext ==
    \/ \E error_info \in LongReports :
          Len(error_history) < MaxLongHistory /\ add_error(error_info)
    \/ get_recovery_suggestion
    \/ should_suggest_alternative_approach
    \/ reset

LongSpec == Init /\ [][LongNext]_vars

-----------------------------------------------------------------------------
(* The statistics of long histories, with and without a file.              *)

VolumeNext ==
    \/ \E error_info \in VolumeReports :
          Len(error_history) < MaxLongHistory /\ add_error(error_info)
    \/ get_statistics
    \/ reset

VolumeSpec == Init /\ [][VolumeNext]_vars

-----------------------------------------------------------------------------
(* The statistics over records that differ in file and line.               *)

StatsNext ==
    \/ \E error_info \in StatsReports :
          Len(error_history) < MaxStatsHistory /\ add_error(error_info)
    \/ get_statistics
    \/ reset

StatsSpec == Init /\ [][StatsNext]_vars

-----------------------------------------------------------------------------
(* reset() of the one writer running beside a reader thread.  Nothing in   *)
(* the class takes a lock, so the interpreter may switch threads between   *)
(* any two statements of reset and of get_statistics.                      *)

ConcReports == {
    [message |-> "SyntaxError: invalid syntax", file |-> "script.py", line |-> 20],
    [message |-> ""] }

\* reset(), line 431: the log line is formatted.
reset_log ==
    /\ reset_pc = "idle"
    /\ reset_pc' = "clear_history"
    /\ op' = <<"reset", None>>
    /\ UNCHANGED <<error_history, pattern_counters, ret, reader, episode>>

\* reset(), line 432
reset_clear_history ==
    /\ reset_pc = "clear_history"
    /\ error_history' = ClearedHistory(error_history)
    /\ reset_pc' = "clear_counters"
    /\ UNCHANGED <<pattern_counters, op, ret, reader, episode>>

\* reset(), line 433, and the return
reset_clear_counters ==
    /\ reset_pc = "clear_counters"
    /\ pattern_counters' = ClearedCounters(pattern_counters)
    /\ reset_pc' = "idle"
    /\ ret' = Returned(None)
    /\ episode' = <<>>
    /\ UNCHANGED <<error_history, op, reader>>

\* The reader's get_statistics(), line 345: the emptiness test.
reader_test ==
    /\ reader.pc = "idle"
    /\ reader' = IF error_history = <<>>
                 THEN [pc |-> "idle", seen |-> EmptyStatistics]
                 ELSE [pc |-> "build", seen |-> reader.seen]
    /\ UNCHANGED <<error_history, pattern_counters, op, ret, reset_pc, episode>>

\* The reader's get_statistics(), lines 356-371: the dict is built and returned.
reader_build ==
    /\ reader.pc = "build"
    /\ reader' = [pc |-> "idle",
                  seen |-> BuiltStatistics(error_history, pattern_counters)]
    /\ UNCHANGED <<error_history, pattern_counters, op, ret, reset_pc, episode>>

ConcNext ==
    \/ \E error_info \in ConcReports :
          Len(error_history) < MaxHistory /\ add_error(error_info)
    \/ reset_log
    \/ reset_clear_history
    \/ reset_clear_counters
    \/ reader_test
    \/ reader_build

ConcSpec == Init /\ [][ConcNext]_vars

-----------------------------------------------------------------------------
(* Vocabulary of the properties, stated on the state without the           *)
(* operators of the operations above.                                      *)

Categories == {"indentation", "syntax", "undefined", "import", "type", "logic", "unknown"}

\* The number of records of the history whose error_type is t.
RecordsOfType(history, t) ==
    Cardinality({i \in 1..Len(history) : history[i].error_type = t})

\* type_counts[t], 0 for an absent key.
CountOf(counters, t) ==
    IF \E i \in 1..Len(counters) : counters[i].key = t
    THEN (counters[CHOOSE i \in 1..Len(counters) : counters[i].key = t]).value
    ELSE 0

\* The call that ran last, and its argument.
Called(name) == op[1] = name

Arg == op[2]

\* The step is a call of add_error with a report that has a message field.
ValidAddStep == op'[1] = "add_error" /\ "message" \in DOMAIN op'[2]

\* The step is a call of add_error with a report that has no message field.
RejectedAddStep == op'[1] = "add_error" /\ "message" \notin DOMAIN op'[2]

\* The window of the specification: the last window_size records, in order.
WindowOf(history, window_size) ==
    [i \in 1..window_size |-> history[Len(history) - window_size + i]]

TypesIn(win) == {win[i].error_type : i \in 1..Len(win)}

StartsWith(s, prefix) ==
    Len(s) >= Len(prefix) /\ SubSeq(s, 1, Len(prefix)) = prefix

Contains(s, part) ==
    \E i \in 1..(Len(s) - Len(part) + 1) : SubSeq(s, i, i + Len(part) - 1) = part

\* The four loop rules as the specification states them.
RuleUniform(win) ==
    /\ Len(win) >= 1
    /\ \A i \in 1..Len(win) : win[i].error_type = win[1].error_type
    /\ win[1].error_type # "unknown"

RuleSameLine(win) ==
    LET with_line == {i \in 1..Len(win) : win[i].line > 0}
    IN  /\ Cardinality(with_line) >= 3
        /\ \A i, j \in with_line : win[i].line = win[j].line

RuleAlternating(win) ==
    /\ Len(win) >= 4
    /\ Cardinality(TypesIn(win)) = 2
    /\ \A i \in 1..(Len(win) - 1) : win[i].error_type # win[i + 1].error_type

RuleSameFile(win) ==
    LET with_file == {i \in 1..Len(win) : win[i].file # ""}
    IN  /\ Cardinality(with_file) >= 4
        /\ \A i, j \in with_file : win[i].file = win[j].file

\* The rules, by their place in the priority order, that hold on a window.
RulesHolding(win) ==
    {k \in 1..4 : \/ k = 1 /\ RuleUniform(win)
                  \/ k = 2 /\ RuleSameLine(win)
                  \/ k = 3 /\ RuleAlternating(win)
                  \/ k = 4 /\ RuleSameFile(win)}

\* What the last detect_loop returned.
LoopVerdict == ret.returned[1]

LoopReason == ret.returned[2]

\* The rule a returned reason belongs to, 0 for an absent reason.
ReasonRule(reason) ==
    IF reason = None THEN 0
    ELSE IF StartsWith(reason.text, "Repetitive ") THEN 1
    ELSE IF StartsWith(reason.text, "Repeatedly failing at line ") THEN 2
    ELSE IF StartsWith(reason.text, "Alternating between ") THEN 3
    ELSE IF StartsWith(reason.text, "Multiple errors in same file: ") THEN 4
    ELSE 5

-----------------------------------------------------------------------------
(* C1: in every reachable state type_counts is the histogram of history:   *)
(* each key is held once, type_counts[t] is the number of records of type  *)
(* t, a key is present only if that number is at least 1, and the counts   *)
(* sum to len(history).                                                    *)
C1_CountersAreHistogram ==
    /\ \A i, j \in 1..Len(pattern_counters) :
          pattern_counters[i].key = pattern_counters[j].key => i = j
    /\ \A t \in Categories :
          CountOf(pattern_counters, t) = RecordsOfType(error_history, t)
    /\ \A i \in 1..Len(pattern_counters) :
          /\ pattern_counters[i].key \in Categories
          /\ RecordsOfType(error_history, pattern_counters[i].key) >= 1
    /\ DictSum(pattern_counters) = Len(error_history)

\* A rejected add_error after records of three types were stored.
C1_Witness ==
    /\ Called("add_error") /\ "message" \notin DOMAIN Arg
    /\ Len(pattern_counters) >= 3
    /\ \E i \in 1..Len(pattern_counters) : pattern_counters[i].value >= 2

(* C2: add_error with a report that has a message appends exactly one      *)
(* record at the end of history, every earlier record keeping its place    *)
(* and contents, increments type_counts[classify(message)] by exactly 1    *)
(* and leaves the count of every other type unchanged.                     *)
C2_AddAppendsOneRecord ==
    [][ValidAddStep =>
          /\ Len(error_history') = Len(error_history) + 1
          /\ SubSeq(error_history', 1, Len(error_history)) = error_history
          /\ error_history'[Len(error_history')].message = op'[2]["message"]
          /\ error_history'[Len(error_history')].error_type
                = ErrorTypeOf[op'[2]["message"]]
          /\ \A t \in Categories :
                CountOf(pattern_counters', t) =
                    CountOf(pattern_counters, t)
                    + (IF t = ErrorTypeOf[op'[2]["message"]] THEN 1 ELSE 0)
       ]_vars

\* A valid add_error that made the history three records long, over two types.
C2_Witness ==
    /\ Called("add_error") /\ "message" \in DOMAIN Arg
    /\ Len(error_history) = 3
    /\ error_history[1].error_type # error_history[3].error_type

(* C3: the record at position i of history carries sequence index i        *)
(* (0-based), in every reachable state; the first record added after a     *)
(* reset gets index 0 again.                                               *)
C3_SequenceIndexIsPosition ==
    /\ [](\A i \in 1..Len(error_history) : error_history[i].timestamp = i - 1)
    /\ [][(Called("reset") /\ ValidAddStep) =>
             /\ Len(error_history') = 1
             /\ error_history'[1].timestamp = 0]_vars

\* A history of four records, the last just added.
C3_Witness ==
    /\ Called("add_error") /\ "message" \in DOMAIN Arg
    /\ Len(error_history) = 4

(* C4: add_error with a report without a message field raises ValueError   *)
(* (InvalidReport) and leaves history and type_counts as they were; a      *)
(* report whose message is present but empty is accepted and stored.       *)
C4_MissingMessageRejected ==
    [][/\ RejectedAddStep =>
             /\ ret' = Raised("ValueError")
             /\ error_history' = error_history
             /\ pattern_counters' = pattern_counters
       /\ (ValidAddStep /\ op'[2]["message"] = "") =>
             /\ ret' = Returned(None)
             /\ Len(error_history') = Len(error_history) + 1
             /\ error_history'[Len(error_history')].message = ""
      ]_vars

\* A rejected add_error on a detector that holds two records.
C4_Witness ==
    /\ Called("add_error") /\ "message" \notin DOMAIN Arg
    /\ ret = Raised("ValueError")
    /\ Len(error_history) = 2

(* C5: from any reachable state reset() ends with len(history) = 0 and     *)
(* type_counts empty (sum of counts 0), and get_statistics() called next   *)
(* reports total_errors = 0.                                               *)
C5_ResetEmptiesBoth ==
    [][/\ op'[1] = "reset" =>
             /\ Len(error_history') = 0
             /\ Len(pattern_counters') = 0
             /\ DictSum(pattern_counters') = 0
       /\ (Called("reset") /\ op'[1] = "get_statistics") =>
             ret'.returned.total_errors = 0
      ]_vars

\* get_statistics() answering on an empty history.
C5_Witness ==
    /\ Called("get_statistics")
    /\ error_history = <<>>
    /\ ret.returned.total_errors = 0

(* C8: when history holds at least window_size >= 1 records and the last   *)
(* window_size records share one error_type other than unknown,            *)
(* detect_loop(window_size) returns (true, reason naming that type); a     *)
(* window of unknown records never yields the uniform-type reason.         *)
C8_UniformTypeRule ==
    (Called("detect_loop") /\ Arg >= 1 /\ Len(error_history) >= Arg) =>
        LET win == WindowOf(error_history, Arg)
        IN  /\ (/\ \A i \in 1..Len(win) : win[i].error_type = win[1].error_type
                /\ win[1].error_type # "unknown") =>
                    /\ LoopVerdict = TRUE
                    /\ ReasonRule(LoopReason) = 1
                    /\ Contains(LoopReason.text, win[1].error_type)
            /\ (\A i \in 1..Len(win) : win[i].error_type = "unknown") =>
                    ReasonRule(LoopReason) # 1

\* detect_loop() with the default window on five indentation records: a loop.
C8_Witness ==
    /\ Called("detect_loop") /\ Arg = 5
    /\ Len(error_history) = 5
    /\ \A i \in 1..5 : error_history[i].error_type = "indentation"
    /\ LoopVerdict = TRUE
    /\ Contains(LoopReason.text, "indentation")

\* detect_loop on a window of unknown records only: no loop by type.
C8_WitnessUnknown ==
    /\ Called("detect_loop") /\ Arg = 3
    /\ Len(error_history) >= 3
    /\ \A i \in 1..Len(error_history) : error_history[i].error_type = "unknown"
    /\ LoopVerdict = FALSE

(* C9: when the window has at least 4 records of exactly 2 distinct types, *)
(* no two adjacent records share a type, and neither the uniform-type nor  *)
(* the same-line rule holds, detect_loop returns true with the alternating *)
(* reason naming both types, for every pair of categories; and the         *)
(* alternating reason is never returned when two adjacent records share a  *)
(* type or the window is shorter than 4.                                   *)
C9_AlternatingRule ==
    (Called("detect_loop") /\ Arg >= 1 /\ Len(error_history) >= Arg) =>
        LET win == WindowOf(error_history, Arg)
        IN  /\ (RuleAlternating(win) /\ ~RuleUniform(win) /\ ~RuleSameLine(win)) =>
                    /\ LoopVerdict = TRUE
                    /\ ReasonRule(LoopReason) = 3
                    /\ LoopReason.set = TypesIn(win)
            /\ ReasonRule(LoopReason) = 3 =>
                    /\ Len(win) >= 4
                    /\ \A i \in 1..(Len(win) - 1) :
                          win[i].error_type # win[i + 1].error_type

(* C10: the rules are tried in the order uniform type, same line,          *)
(* alternating, same file: when the window satisfies more than one rule,   *)
(* detect_loop returns the reason of the earliest one that holds.          *)
C10_EarliestRuleWins ==
    (Called("detect_loop") /\ Arg >= 1 /\ Len(error_history) >= Arg) =>
        LET holding == RulesHolding(WindowOf(error_history, Arg))
        IN  Cardinality(holding) >= 2 =>
                /\ LoopVerdict = TRUE
                /\ ReasonRule(LoopReason) \in holding
                /\ \A k \in holding : ReasonRule(LoopReason) <= k

(* C6: reset() is atomic for a reader running beside it: no reader        *)
(* observes history cleared while type_counts is not, or type_counts       *)
(* cleared while history is not.                                           *)
C6_ResetAtomicForReader ==
    reader.seen # None =>
        (reader.seen.total_errors = 0 <=> reader.seen.by_type = EmptyDict)

(* C7: every query leaves history and type_counts unchanged (the counter   *)
(* lookup of get_recovery_suggestion creates no key), so get_statistics()  *)
(* or detect_loop() called again with no add_error or reset in between     *)
(* returns the same result.                                                *)
QueryNames == {"detect_loop", "get_recovery_suggestion",
               "should_suggest_alternative_approach", "get_statistics", "summary",
               "get_last_n_errors", "has_error_in_file", "get_errors_by_type",
               "get_errors_by_file", "get_error_rate", "get_most_problematic_file",
               "get_problematic_lines"}

C7_QueriesReadOnly ==
    [][/\ op'[1] \in QueryNames =>
             /\ error_history' = error_history
             /\ pattern_counters' = pattern_counters
       /\ (/\ op'[1] \in {"get_statistics", "detect_loop"}
           /\ op[1] = op'[1]
           /\ op[2] = op'[2]) => ret' = ret
      ]_vars

\* get_recovery_suggestion() answered on a history of three records of two types.
C7_Witness ==
    /\ Called("get_recovery_suggestion")
    /\ Len(error_history) = 3
    /\ Len(pattern_counters) = 2
    /\ ret.returned # None

C13_ShortHistoryNoLoop ==
    (Called("detect_loop") /\ Len(error_history) < Arg) =>
        /\ LoopVerdict = FALSE
        /\ LoopReason = None

\* detect_loop() with the default window of 5 on four identical indentation
\* errors on one line of one file: no loop.
C13_Witness ==
    /\ Called("detect_loop") /\ Arg = 5
    /\ Len(error_history) = 4
    /\ \A i \in 1..4 : /\ error_history[i].error_type = "indentation"
                       /\ error_history[i].line = 10
                       /\ error_history[i].file = "test.py"
    /\ LoopVerdict = FALSE
    /\ LoopReason = None

CategoryOrder == <<"indentation", "syntax", "undefined", "import", "type", "logic">>

\* The categories whose pattern is found in each message.
FoundIn ==
    [m \in {r["message"] : r \in ClassifyReports} |->
        {c \in Categories :
            \E k \in 1..Len(known_patterns) :
                /\ known_patterns[k].name = c
                /\ re_search(known_patterns[k].regex, m)}]

FirstFound(m) ==
    IF m = "" \/ FoundIn[m] = {} THEN "unknown"
    ELSE CategoryOrder[CHOOSE k \in 1..Len(CategoryOrder) :
                          /\ CategoryOrder[k] \in FoundIn[m]
                          /\ \A j \in 1..(k - 1) : CategoryOrder[j] \notin FoundIn[m]]

C15_FirstCategoryWins ==
    /\ \A i \in 1..Len(error_history) :
          error_history[i].error_type = FirstFound(error_history[i].message)
    /\ Called("_classify_error") => ret.returned = FirstFound(Arg)

\* A message in which the patterns of indentation and of syntax are found,
\* classified as indentation on a detector that already holds two records of
\* other types.
C15_Witness ==
    /\ Called("_classify_error")
    /\ Arg = "IndentationError: invalid syntax"
    /\ FoundIn[Arg] = {"indentation", "syntax"}
    /\ ret.returned = "indentation"
    /\ Len(error_history) = 3
    /\ error_history[1].error_type = "unknown"
    /\ error_history[2].error_type = "type"
    /\ error_history[3].error_type = "syntax"

(* C16: get_recovery_suggestion returns absent exactly when history is     *)
(* empty; otherwise its base message is the template of the error_type of  *)
(* the most recent record (not of the most frequent type), the generic     *)
(* fallback template when that type is unknown.                            *)
TemplateHeading ==
    [indentation |-> "INDENTATION ERROR - Common fixes:",
     syntax      |-> "SYNTAX ERROR - Try these steps:",
     undefined   |-> "UNDEFINED NAME - Likely causes:",
     import      |-> "IMPORT ERROR - Solutions:",
     type        |-> "TYPE/ATTRIBUTE ERROR - Check:",
     logic       |-> "LOGIC ERROR (Index/Key/Value) - Verify:",
     unknown     |-> "ERROR DETECTED - Consider a different approach"]

C16_SuggestionByLastType ==
    Called("get_recovery_suggestion") =>
        /\ ret.returned = None <=> error_history = <<>>
        /\ error_history # <<>> =>
              StartsWith(ret.returned.text,
                         TemplateHeading[error_history[Len(error_history)].error_type])

\* The suggestion after two syntax errors and one indentation error: the
\* indentation template, although syntax is the most frequent type.
C16_Witness ==
    /\ Called("get_recovery_suggestion")
    /\ Len(error_history) = 3
    /\ error_history[1].error_type = "syntax"
    /\ error_history[2].error_type = "syntax"
    /\ error_history[3].error_type = "indentation"
    /\ StartsWith(ret.returned.text, "INDENTATION ERROR")

(* C17: the suggestion contains the same-type frequency warning if and     *)
(* only if the number of records of the whole history (not of the trailing *)
(* run, not of a window) that have the most recent record's error_type is  *)
(* at least 3, and the warning states exactly that number together with    *)
(* that type.                                                              *)
OrdinalSuffixes == {"st", "nd", "rd", "th"}

C17_FrequencyWarning ==
    (Called("get_recovery_suggestion") /\ error_history # <<>>) =>
        LET last_type == error_history[Len(error_history)].error_type
            n == RecordsOfType(error_history, last_type)
            text == ret.returned.text
        IN  /\ Contains(text, "WARNING: This is your ") <=> n >= 3
            /\ n >= 3 =>
                  \E suffix \in OrdinalSuffixes :
                      Contains(text, "This is your " \o ToString(n) \o suffix
                                     \o " " \o last_type \o " error.")

\* The suggestion after a third syntax error that follows records of another
\* type: the warning names the count 3 and syntax, the trailing run being 1.
C17_Witness ==
    /\ Called("get_recovery_suggestion")
    /\ Len(error_history) >= 5
    /\ error_history[Len(error_history)].error_type = "syntax"
    /\ error_history[Len(error_history) - 1].error_type = "unknown"
    /\ RecordsOfType(error_history, "syntax") = 3
    /\ RecordsOfType(SubSeq(error_history, Len(error_history) - 4,
                            Len(error_history)), "syntax") < 3
    /\ Contains(ret.returned.text, "This is your 3")
    /\ Contains(ret.returned.text, " syntax error.")

(* C18: the suggestion contains the total-volume warning if and only if    *)
(* len(history) >= 7, independently of the same-type warning; when both    *)
(* warnings apply both appear, in the order base message, same-type        *)
(* warning, total-volume warning.                                          *)
PositionOf(s, part) ==
    IF Contains(s, part)
    THEN CHOOSE i \in 1..(Len(s) - Len(part) + 1) :
            /\ SubSeq(s, i, i + Len(part) - 1) = part
            /\ \A j \in 1..(i - 1) : SubSeq(s, j, j + Len(part) - 1) # part
    ELSE 0

C18_TotalWarning ==
    (Called("get_recovery_suggestion") /\ error_history # <<>>) =>
        LET last_type == error_history[Len(error_history)].error_type
            n == RecordsOfType(error_history, last_type)
            text == ret.returned.text
            at_base == PositionOf(text, TemplateHeading[last_type])
            at_frequency == PositionOf(text, "WARNING: This is your ")
            at_total == PositionOf(text, "TOTAL ERRORS: ")
        IN  /\ at_total > 0 <=> Len(error_history) >= 7
            /\ at_base = 1
            /\ (n >= 3 /\ Len(error_history) >= 7) =>
                  /\ at_frequency > 0
                  /\ at_base < at_frequency
                  /\ at_frequency < at_total
            /\ (n < 3 /\ Len(error_history) >= 7) =>
                  /\ at_frequency = 0
                  /\ at_base < at_total

\* The suggestion on a history of seven records, four of them of the most
\* recent type: both warnings, the same-type one first.
C18_Witness ==
    /\ Called("get_recovery_suggestion")
    /\ Len(error_history) = 7
    /\ RecordsOfType(error_history, error_history[7].error_type) = 4
    /\ PositionOf(ret.returned.text, "WARNING: This is your ") > 1
    /\ PositionOf(ret.returned.text, "TOTAL ERRORS: ")
          > PositionOf(ret.returned.text, "WARNING: This is your ")

(* C19: should_suggest_alternative_approach() returns false whenever       *)
(* len(history) < 3, true in every state with len(history) >= 5, and for   *)
(* len(history) of 3 or 4 true exactly when the last 3 records share one   *)
(* error_type and that type is not unknown.                                *)
C19_AlternativeApproach ==
    Called("should_suggest_alternative_approach") =>
        LET n == Len(error_history)
        IN  /\ n < 3 => ret.returned = FALSE
            /\ n >= 5 => ret.returned = TRUE
            /\ n \in {3, 4} =>
                  (ret.returned = TRUE <=>
                      /\ error_history[n].error_type = error_history[n - 1].error_type
                      /\ error_history[n].error_type = error_history[n - 2].error_type
                      /\ error_history[n].error_type # "unknown")

\* The verdict true after eight records of unknown type.
C19_Witness ==
    /\ Called("should_suggest_alternative_approach")
    /\ Len(error_history) = 8
    /\ \A i \in 1..8 : error_history[i].error_type = "unknown"
    /\ ret.returned = TRUE

(* C20: for an empty history (fresh detector or just after reset)          *)
(* get_statistics() returns a zero-valued structure with the same fields   *)
(* as for a non-empty history: total_errors 0, by_type empty,              *)
(* recent_errors 0, recovery_attempts 0, most_common_error absent,         *)
(* unique_files_affected 0, avg_errors_per_file 0, error_rate 0 and        *)
(* consecutive_same_type 0.                                                *)
StatisticsFields ==
    {"total_errors", "by_type", "recent_errors", "recovery_attempts",
     "most_common_error", "unique_files_affected", "avg_errors_per_file",
     "error_rate", "consecutive_same_type"}

C20_EmptyStatisticsFields ==
    (Called("get_statistics") /\ error_history = <<>>) =>
        LET stats == ret.returned
        IN  /\ DOMAIN stats = StatisticsFields
            /\ stats.total_errors = 0
            /\ stats.by_type = EmptyDict
            /\ stats.recent_errors = 0
            /\ stats.recovery_attempts = 0
            /\ stats.most_common_error = None
            /\ stats.unique_files_affected = 0
            /\ stats.avg_errors_per_file.num = 0
            /\ stats.error_rate.num = 0
            /\ stats.consecutive_same_type = 0

(* C21: recovery_attempts reported by get_statistics is the number of      *)
(* adjacent pairs (prev, curr) of the entire history such that either both *)
(* have the same nonzero line number, whatever their files, or both name   *)
(* the same non-empty file and have nonzero lines that differ by at most   *)
(* 10; each pair counts at most once, and a pair in which either line is 0 *)
(* never counts.                                                           *)
RecoveryPair(prev, curr) ==
    \/ prev.line = curr.line /\ curr.line # 0
    \/ /\ prev.file = curr.file /\ curr.file # ""
       /\ prev.line # 0 /\ curr.line # 0
       /\ prev.line - curr.line \in -10..10

C21_RecoveryAttempts ==
    (Called("get_statistics") /\ error_history # <<>>) =>
        ret.returned.recovery_attempts =
            Cardinality({i \in 2..Len(error_history) :
                            RecoveryPair(error_history[i - 1], error_history[i])})

\* Statistics of four records: line 10 of test.py, line 10 of script.py, line
\* 20 of test.py, line 31 of test.py: one recovery attempt, for the first pair.
C21_Witness ==
    /\ Called("get_statistics")
    /\ Len(error_history) = 4
    /\ error_history[1].file = "test.py" /\ error_history[1].line = 10
    /\ error_history[2].file = "script.py" /\ error_history[2].line = 10
    /\ error_history[3].file = "test.py" /\ error_history[3].line = 20
    /\ error_history[4].file = "test.py" /\ error_history[4].line = 31
    /\ ret.returned.recovery_attempts = 1

(* C22: for a non-empty history most_common_error is an error_type whose   *)
(* cumulative count is maximal and, when several types tie for the         *)
(* maximum, the tied type that was seen first in the history; the answer   *)
(* is a function of the history.                                           *)
FirstSeenAt(history, t) ==
    CHOOSE i \in 1..Len(history) :
        /\ history[i].error_type = t
        /\ \A j \in 1..(i - 1) : history[j].error_type # t

C22_MostCommonFirstSeen ==
    (Called("get_statistics") /\ error_history # <<>>) =>
        LET seen == {error_history[i].error_type : i \in 1..Len(error_history)}
            tied == {t \in seen :
                        \A u \in seen : RecordsOfType(error_history, u)
                                            <= RecordsOfType(error_history, t)}
            answer == ret.returned.most_common_error
        IN  /\ answer # None
            /\ answer.text \in tied
            /\ \A u \in tied : FirstSeenAt(error_history, answer.text)
                                   <= FirstSeenAt(error_history, u)

\* Statistics of syntax, indentation, indentation, syntax: both types count 2,
\* indentation reached 2 first, syntax was seen first and is the answer.
C22_Witness ==
    /\ Called("get_statistics")
    /\ Len(error_history) = 4
    /\ error_history[1].error_type = "syntax"
    /\ error_history[2].error_type = "indentation"
    /\ error_history[3].error_type = "indentation"
    /\ error_history[4].error_type = "syntax"
    /\ ret.returned.most_common_error.text = "syntax"

(* C23: for a non-empty history get_statistics reports total_errors =      *)
(* len(history), by_type equal to type_counts (so its values sum to        *)
(* total_errors), recent_errors = min(5, total_errors) and                 *)
(* unique_files_affected = the number of distinct non-empty file values of *)
(* the history (a record with an empty file adds nothing to it).           *)
C23_StatisticsFields ==
    (Called("get_statistics") /\ error_history # <<>>) =>
        LET stats == ret.returned
            n == Len(error_history)
        IN  /\ stats.total_errors = n
            /\ stats.by_type = pattern_counters
            /\ \A t \in Categories :
                  CountOf(stats.by_type, t) = RecordsOfType(error_history, t)
            /\ DictSum(stats.by_type) = stats.total_errors
            /\ stats.recent_errors = (IF n < 5 THEN n ELSE 5)
            /\ stats.unique_files_affected =
                  Cardinality({f \in {error_history[i].file : i \in 1..n} : f # ""})

\* Statistics of seven records in two files, one of them without a file.
C23_Witness ==
    /\ Called("get_statistics")
    /\ Len(error_history) = 7
    /\ {error_history[i].file : i \in 1..7} = {"script.py", "test.py", ""}
    /\ ret.returned.total_errors = 7
    /\ ret.returned.recent_errors = 5
    /\ ret.returned.unique_files_affected = 2

(* C24: for every window_size >= 0 and every history of at least           *)
(* window_size records, the verdict of detect_loop(window_size) is         *)
(* determined by the last window_size records alone: it is the verdict     *)
(* detect_loop(window_size) gives on a detector whose history is just      *)
(* those records; with window_size 0 the window is empty and no record     *)
(* influences the verdict.                                                 *)
C24_WindowDecidesVerdict ==
    (Called("detect_loop") /\ Len(error_history) >= Arg) =>
        /\ LoopVerdict = DetectLoopOn(WindowOf(error_history, Arg), Arg)[1]
        /\ Arg = 0 => LoopVerdict = DetectLoopOn(<<>>, 0)[1]

(* C25: get_last_n_errors(n) returns, for every n >= 0 and every history,  *)
(* the last min(n, len(history)) records in insertion order: exactly n     *)
(* records when the history has at least n, the whole history when it has  *)
(* fewer, and no records when n is 0.                                      *)
C25_LastNErrors ==
    Called("get_last_n_errors") =>
        LET n == Len(error_history)
            k == IF Arg < n THEN Arg ELSE n
        IN  /\ Len(ret.returned) = k
            /\ \A i \in 1..k : ret.returned[i] = error_history[n - k + i]

(* C26: a detector that has been reset is indistinguishable from a freshly *)
(* constructed one: whatever the history before reset(), the calls made    *)
(* after it give the results and the states (records, sequence indices,    *)
(* counters) that the same calls give on a new detector.                   *)

\* The state of a new detector after add_error of each of the reports, in order.
RECURSIVE NewDetectorAfter(_)
NewDetectorAfter(reports) ==
    IF reports = <<>>
    THEN [error_history |-> <<>>, pattern_counters |-> EmptyDict]
    ELSE LET before == NewDetectorAfter(SubSeq(reports, 1, Len(reports) - 1))
             error_info == reports[Len(reports)]
             error_type == ErrorTypeOf[error_info["message"]]
         IN  [error_history |->
                  HistoryAfterAppend(before.error_history,
                      error_entry(error_info, error_type, before.error_history)),
              pattern_counters |->
                  CountersAfterIncrement(before.pattern_counters, error_type)]

C26_ResetIsFresh ==
    LET new == NewDetectorAfter(episode)
    IN  /\ error_history = new.error_history
        /\ pattern_counters = new.pattern_counters
        /\ \A i \in 1..Len(error_history) : error_history[i].timestamp = i - 1
        /\ Called("get_statistics") =>
              ret.returned = StatisticsOn(new.error_history, new.pattern_counters)
        /\ Called("detect_loop") =>
              ret.returned = DetectLoopOn(new.error_history, Arg)
        /\ Called("should_suggest_alternative_approach") =>
              ret.returned = ShouldSuggestOn(new.error_history)
        /\ Called("get_last_n_errors") =>
              ret.returned = LastNErrorsOn(new.error_history, Arg)
        /\ Called("summary") =>
              ret.returned = SummaryOn(new.error_history, new.pattern_counters)
        /\ (Called("get_recovery_suggestion") /\ new.error_history # <<>>) =>
              ret.returned = Str(SuggestionOn(new.error_history, new.pattern_counters))

\* reset() has just run, on a detector that held at least one record, as every
\* reset() of EpisodeSpec does: nothing is stored and no report belongs to the
\* episode that starts.
C26_Witness ==
    /\ Called("reset")
    /\ episode = <<>>
    /\ error_history = <<>>
    /\ pattern_counters = EmptyDict

\* C27: whenever detect_loop() with the default window of 5 reports a loop,
\* should_suggest_alternative_approach() asked of the same state returns
\* true.  Stated on the three places where both verdicts are observed on one
\* state: the second query right after the first, in either order, and
\* summary(), which prints both.
C27_LoopImpliesAlternative ==
    [][/\ ( /\ Called("detect_loop") /\ Arg = DefaultWindow /\ LoopVerdict = TRUE
            /\ op'[1] = "should_suggest_alternative_approach" )
          => ret'.returned = TRUE
       /\ ( /\ Called("should_suggest_alternative_approach") /\ ret.returned = FALSE
            /\ op' = <<"detect_loop", DefaultWindow>> )
          => ret'.returned[1] = FALSE
       /\ op'[1] = "summary"
          => (ret'.returned.loop = None \/ ret'.returned.recommendation = TRUE)
      ]_vars

\* summary() has printed a loop found by the alternation rule, on five records
\* of which no three consecutive ones share a type, and the recommendation.
C27_Witness ==
    /\ Called("summary")
    /\ Len(error_history) = DefaultWindow
    /\ ret.returned.loop # None
    /\ ret.returned.recommendation = TRUE
    /\ \A i \in 1..(Len(error_history) - 1) :
          error_history[i].error_type # error_history[i + 1].error_type

\* C28 as stated: between two resets, once should_suggest_alternative_approach()
\* would return true, it still does after every add_error that stores a record,
\* whatever the type of that record.
C28_VerdictMonotone ==
    [][(ShouldSuggestOn(error_history) /\ ValidAddStep)
          => ShouldSuggestOn(error_history')]_vars

\* C28, amended: the verdict is monotone from four records on.  Once
\* should_suggest_alternative_approach() would return true on a history of at
\* least 4 records, it still does after every add_error that stores a record,
\* until reset().  (A true verdict on exactly 3 records can turn false with the
\* fourth.)
C28_VerdictMonotoneFromFour ==
    [][(Len(error_history) >= 4 /\ ShouldSuggestOn(error_history) /\ ValidAddStep)
          => ShouldSuggestOn(error_history')]_vars

\* add_error has stored a fifth record of another type than the three before
\* it, which shared a known type: the verdict was true on the four records
\* and is true on the five.
C28_Witness ==
    /\ Called("add_error")
    /\ Len(error_history) = 5
    /\ Len(episode) = 5
    /\ error_history[2].error_type = error_history[3].error_type
    /\ error_history[3].error_type = error_history[4].error_type
    /\ error_history[4].error_type # "unknown"
    /\ error_history[5].error_type # error_history[4].error_type
    /\ ShouldSuggestOn(SubSeq(error_history, 1, 4))
    /\ ShouldSuggestOn(error_history)

====
